---- MODULE Spec2Model ----
(***************************************************************************)
(* Great-circle formulas of src/src/great-circle.mjs, evaluated as the     *)
(* JavaScript engine evaluates them: every number is an IEEE-754 binary64  *)
(* value, every arithmetic operator and Math.sqrt round to nearest (ties   *)
(* to even), and Math.sin, Math.cos, Math.atan2 and Math.asin are the      *)
(* engine's functions, computed operation by operation.                    *)
(*                                                                         *)
(* TLC's integers are 32 bits wide, so a 53-bit significand is kept as a   *)
(* little-endian sequence of 15-bit limbs (a "big natural").               *)
(***************************************************************************)
EXTENDS Integers, Sequences, FiniteSets, TLC

\* A local constant of the source: The({ body : v \in {e} }) is body with v
\* the value of e, computed once, before body.  Nested constants read from
\* the last line up, in the order of their declarations in the source.
The(S) == CHOOSE r \in S : TRUE

(***************************************************************************)
(* Big naturals: little-endian sequences of limbs in 0..Base-1, without    *)
(* leading (most significant) zero limbs; zero is the empty sequence.      *)
(***************************************************************************)
LimbBits == 5 * 3
Base == 2^LimbBits

Limb(a, i) == IF i >= 1 /\ i <= Len(a) THEN a[i] ELSE 0

Max(x, y) == IF x >= y THEN x ELSE y
Min(x, y) == IF x <= y THEN x ELSE y
SetMax(S) == CHOOSE x \in S : \A y \in S : y <= x

\* a without its most significant zero limbs.
BigTrim(a) ==
  IF a = <<>> THEN a
  ELSE IF a[Len(a)] # 0 THEN a
  ELSE IF \A i \in 1..Len(a) : a[i] = 0 THEN <<>>
  ELSE SubSeq(a, 1, SetMax({i \in 1..Len(a) : a[i] # 0}))

\* The big natural of a natural number n < 2^31, and the natural number of a
\* big natural below 2^31.
BigFromNat(n) == BigTrim(<<n % Base, (n \div Base) % Base, n \div (Base * Base)>>)
BigToNat(a) == Limb(a, 1) + Limb(a, 2) * Base + Limb(a, 3) * Base * Base

\* The big natural of the limb-wise values raw (each below 2^31 - 2^16): one
\* carry pass from the lowest limb; acc holds the limbs done, c the carry.
RECURSIVE BigCarry(_, _, _)
BigCarry(raw, c, acc) ==
  IF Len(acc) >= Len(raw) THEN (IF c = 0 THEN acc ELSE acc \o BigFromNat(c))
  ELSE BigCarry(raw, (raw[Len(acc) + 1] + c) \div Base,
                Append(acc, (raw[Len(acc) + 1] + c) % Base))

\* a + b.
BigAdd(a, b) ==
  IF Len(a) = 0 THEN b
  ELSE IF Len(b) = 0 THEN a
  ELSE BigCarry([i \in 1..Max(Len(a), Len(b)) |-> Limb(a, i) + Limb(b, i)], 0, <<>>)

\* a - b for a >= b: one borrow pass; c is the borrow.
RECURSIVE BigBorrow(_, _, _)
BigBorrow(raw, c, acc) ==
  IF Len(acc) >= Len(raw) THEN BigTrim(acc)
  ELSE BigBorrow(raw, IF raw[Len(acc) + 1] - c < 0 THEN 1 ELSE 0,
                 Append(acc, (raw[Len(acc) + 1] - c + Base) % Base))

BigSub(a, b) ==
  IF Len(b) = 0 THEN a
  ELSE BigBorrow([i \in 1..Len(a) |-> a[i] - Limb(b, i)], 0, <<>>)

\* -1, 0, 1 as a < b, a = b, a > b.
BigCmp(a, b) ==
  IF Len(a) < Len(b) THEN -1
  ELSE IF Len(a) > Len(b) THEN 1
  ELSE IF a = b THEN 0
  ELSE IF a[SetMax({i \in 1..Len(a) : a[i] # b[i]})]
            < b[SetMax({i \in 1..Len(a) : a[i] # b[i]})] THEN -1
  ELSE 1

\* a * d for a small d (0 <= d <= 2^16).
BigMulSmall(a, d) ==
  IF d = 0 \/ Len(a) = 0 THEN <<>>
  ELSE IF d = 1 THEN a
  ELSE BigCarry([i \in 1..Len(a) |-> a[i] * d], 0, <<>>)

\* a * Base^k and floor(a / Base^k).
BigShiftLimbs(a, k) ==
  IF Len(a) = 0 \/ k = 0 THEN a ELSE [i \in 1..k |-> 0] \o a

BigDropLimbs(a, k) ==
  IF k >= Len(a) THEN <<>> ELSE SubSeq(a, k + 1, Len(a))

\* a * b: the sum of the rows a * b[j] * Base^(j-1), j in lo..hi, by halves.
RECURSIVE BigMulRows(_, _, _, _)
BigMulRows(a, b, lo, hi) ==
  IF lo = hi THEN BigShiftLimbs(BigMulSmall(a, b[lo]), lo - 1)
  ELSE BigAdd(BigMulRows(a, b, lo, (lo + hi) \div 2),
              BigMulRows(a, b, (lo + hi) \div 2 + 1, hi))

BigMul(a, b) ==
  IF Len(a) = 0 \/ Len(b) = 0 THEN <<>>
  ELSE IF Len(a) >= Len(b) THEN BigMulRows(a, b, 1, Len(b))
  ELSE BigMulRows(b, a, 1, Len(a))

\* floor(a / d) for a small d (1 <= d <= 2^16), from the top limb down; acc
\* holds the quotient's limbs done, r the running remainder.
RECURSIVE BigDivSmallFrom(_, _, _, _)
BigDivSmallFrom(a, d, r, acc) ==
  IF Len(acc) >= Len(a) THEN BigTrim(acc)
  ELSE BigDivSmallFrom(a, d, (r * Base + a[Len(a) - Len(acc)]) % d,
                       <<(r * Base + a[Len(a) - Len(acc)]) \div d>> \o acc)

\* a * 2^n and floor(a / 2^n).
BigShl(a, n) ==
  BigShiftLimbs(BigMulSmall(a, 2^(n % LimbBits)), n \div LimbBits)

BigShr(a, n) ==
  IF n % LimbBits = 0 THEN BigDropLimbs(a, n \div LimbBits)
  ELSE BigDivSmallFrom(BigDropLimbs(a, n \div LimbBits), 2^(n % LimbBits), 0, <<>>)

\* Whether a has a one among its n lowest bits.
BigLowBitsNonZero(a, n) ==
  \/ \E i \in 1..Min(n \div LimbBits, Len(a)) : a[i] # 0
  \/ Limb(a, n \div LimbBits + 1) % 2^(n % LimbBits) # 0

\* Bit n (n >= 0) of a.
BigBit(a, n) == (Limb(a, n \div LimbBits + 1) \div 2^(n % LimbBits)) % 2

\* The number of bits of a natural number t < 2^31, and of a.
SmallBitLen(t) ==
  IF t = 0 THEN 0 ELSE CHOOSE k \in 1..31 : 2^(k - 1) <= t /\ (k = 31 \/ t < 2^k)

BigBitLen(a) ==
  IF a = <<>> THEN 0 ELSE (Len(a) - 1) * LimbBits + SmallBitLen(a[Len(a)])

\* Quotient and remainder of a by b (b # 0): schoolbook long division, one
\* limb of the quotient per step from the top, with b's top limb normalised
\* to >= Base/2.  BigDivFix makes a trial limb q exact: the trial, the two
\* top limbs of R over the top limb of b plus one, never exceeds the true
\* limb and misses it by 3 at most.
RECURSIVE BigDivFix(_, _, _)
BigDivFix(R, bs, q) ==
  IF BigCmp(R, bs) >= 0 THEN BigDivFix(BigSub(R, bs), bs, q + 1)
  ELSE [r |-> R, q |-> q]

\* n is the number of limbs of the quotient, Q those done (the top ones), k
\* the position of the next.
RECURSIVE BigDivLoop(_, _, _, _)
BigDivLoop(R, b, n, Q) ==
  IF Len(Q) >= n THEN [q |-> BigTrim(Q), r |-> R]
  ELSE The({ The({ The({ BigDivLoop(fx.r, b, n, <<fx.q>> \o Q)
         : fx \in {BigDivFix(BigSub(R, BigShiftLimbs(BigMulSmall(b, qh), k)),
                     BigShiftLimbs(b, k), qh)} })
         : qh \in {(Limb(R, k + Len(b) + 1) * Base + Limb(R, k + Len(b))) \div (b[Len(b)] + 1)} })
         : k \in {n - 1 - Len(Q)} })

BigDivMod(a, b) ==
  IF BigCmp(a, b) < 0 THEN [q |-> <<>>, r |-> a]
  ELSE The({ The({ [q |-> d.q, r |-> BigShr(d.r, sh)]
         : d \in {BigDivLoop(BigShl(a, sh), BigShl(b, sh),
                      Len(BigShl(a, sh)) - Len(BigShl(b, sh)) + 1, <<>>)} })
         : sh \in {LimbBits - SmallBitLen(b[Len(b)])} })

\* floor(sqrt(N)) by Newton's iteration from a power of two above the root.
RECURSIVE BigSqrtIter(_, _)
BigSqrtIter(N, x) ==
  The({ IF BigCmp(y, x) >= 0 THEN x ELSE BigSqrtIter(N, y)
    : y \in {BigShr(BigAdd(x, BigDivMod(N, x).q), 1)} })

BigSqrt(N) ==
  IF N = <<>> THEN <<>> ELSE BigSqrtIter(N, BigShl(<<1>>, (BigBitLen(N) + 1) \div 2))

(***************************************************************************)
(* JavaScript numbers (IEEE-754 binary64).  A finite non-zero number is    *)
(*   (-1)^s * m * 2^e,  m a big natural of exactly MantBits bits,          *)
(* a multiple of 2^MinExp below 2^(MaxExp + MantBits); a subnormal number  *)
(* has e < MinExp and as many zero bits at the end of m.  A zero is        *)
(* m = <<>>, e = 0 with its sign; k = "inf" is an infinity, k = "nan" NaN. *)
(***************************************************************************)
MantBits == 52 + 1
MinExp == 0 - 1074
MaxExp == 1024 - MantBits

NaN == [k |-> "nan", s |-> 0, e |-> 0, m |-> <<>>]
Inf(s) == [k |-> "inf", s |-> s, e |-> 0, m |-> <<>>]
Zero(s) == [k |-> "num", s |-> s, e |-> 0, m |-> <<>>]
Num(s, e, m) == [k |-> "num", s |-> s, e |-> e, m |-> m]

IsNaN(x) == x.k = "nan"
IsInf(x) == x.k = "inf"
IsZero(x) == x.k = "num" /\ x.m = <<>>

\* The sign of a product or quotient.
SignXor(x, y) == (x.s + y.s) % 2

\* The number (-1)^s * q * 2^e for a big natural q of n <= MantBits + 1 bits
\* (q = 2^MantBits when n = MantBits + 1), a multiple of 2^MinExp: infinite
\* from 2^(MaxExp + MantBits) on.
Normal(s, q, e, n) ==
  IF n = 0 THEN Zero(s)
  ELSE IF e + n > MaxExp + MantBits THEN Inf(s)
  ELSE IF n > MantBits THEN Num(s, e + 1, BigShr(q, 1))
  ELSE Num(s, e - (MantBits - n), BigShl(q, MantBits - n))

\* Whether N rounds up when its sh lowest bits are dropped: the first of them
\* is set and either a lower one, or the fraction f, or the last bit kept is
\* non-zero (ties to even).
RoundUp(N, sh, sticky) ==
  /\ BigBit(N, sh - 1) = 1
  /\ sticky \/ BigLowBitsNonZero(N, sh - 1) \/ BigBit(N, sh) = 1

\* N without its sh lowest bits, rounded.
RoundAt(s, N, e, sticky, sh) ==
  IF sh <= 0 THEN Normal(s, N, e, BigBitLen(N))
  ELSE The({ Normal(s, q, e + sh, BigBitLen(q))
         : q \in {IF RoundUp(N, sh, sticky) THEN BigAdd(BigShr(N, sh), <<1>>)
           ELSE BigShr(N, sh)} })

\* The double nearest to (-1)^s * (N + f) * 2^e, ties to even, where f = 0
\* when ~sticky and 0 < f < 1 when sticky (then N has more than MantBits
\* bits).  The bits dropped are those beyond MantBits and those below
\* 2^MinExp (gradual underflow).
RoundBig(s, N, e, sticky) ==
  IF N = <<>> THEN Zero(s)
  ELSE RoundAt(s, N, e, sticky, Max(BigBitLen(N) - MantBits, MinExp - e))

\* An integer literal, or an int converted to double (|n| < 2^31).
FromInt(n) ==
  RoundBig(IF n >= 0 THEN 0 ELSE 1, BigFromNat(IF n >= 0 THEN n ELSE -n), 0, FALSE)

FNeg(x) == IF IsNaN(x) THEN x ELSE [x EXCEPT !.s = 1 - x.s]
FAbs(x) == IF IsNaN(x) THEN x ELSE [x EXCEPT !.s = 0]

\* Comparison of magnitudes of two finite numbers: -1, 0, 1.
CmpAbs(x, y) ==
  IF IsZero(x) THEN (IF IsZero(y) THEN 0 ELSE -1)
  ELSE IF IsZero(y) THEN 1
  ELSE IF x.e < y.e THEN -1
  ELSE IF x.e > y.e THEN 1
  ELSE BigCmp(x.m, y.m)

\* x < y, x <= y, x == y of JavaScript (false when an operand is NaN; -0 == 0).
FLt(x, y) ==
  /\ ~IsNaN(x) /\ ~IsNaN(y)
  /\ IF IsInf(x) \/ IsInf(y) THEN x # y /\ (IF IsInf(x) THEN x.s = 1 ELSE y.s = 0)
     ELSE IF IsZero(x) /\ IsZero(y) THEN FALSE
     ELSE IF IsZero(x) THEN y.s = 0
     ELSE IF IsZero(y) THEN x.s = 1
     ELSE IF x.s # y.s THEN x.s = 1
     ELSE IF x.s = 0 THEN CmpAbs(x, y) < 0 ELSE CmpAbs(y, x) < 0

FEq(x, y) ==
  /\ ~IsNaN(x) /\ ~IsNaN(y)
  /\ (IsZero(x) /\ IsZero(y)) \/ x = y

FLe(x, y) == FLt(x, y) \/ FEq(x, y)

\* Every operation on numbers is applied through Apply, to the values of
\* its operands.
RECURSIVE Apply(_, _)
FAdd(x, y) == Apply("+", <<x, y>>)
FMul(x, y) == Apply("*", <<x, y>>)
FDiv(x, y) == Apply("/", <<x, y>>)
FMod(x, y) == Apply("%", <<x, y>>)
FSqrt(x) == Apply("sqrt", <<x>>)
Sin(x) == Apply("sin", <<x>>)
Cos(x) == Apply("cos", <<x>>)
Atan2(y, x) == Apply("atan2", <<y, x>>)
Asin(x) == Apply("asin", <<x>>)

\* x - y.
FSub(x, y) == FAdd(x, FNeg(y))

\* x + y for finite non-zero x and y.  A and B are the significands over the
\* common exponent e0; the sign of a non-zero result is that of the larger
\* operand.
AddAligned(sx, sy, A, B, e0) ==
  IF sx = sy THEN RoundBig(sx, BigAdd(A, B), e0, FALSE)
  ELSE IF BigCmp(A, B) = 0 THEN Zero(0)
  ELSE IF BigCmp(A, B) > 0 THEN RoundBig(sx, BigSub(A, B), e0, FALSE)
  ELSE RoundBig(sy, BigSub(B, A), e0, FALSE)

Plus(x, y) ==
  IF IsNaN(x) \/ IsNaN(y) THEN NaN
  ELSE IF IsInf(x) THEN (IF IsInf(y) /\ y.s # x.s THEN NaN ELSE x)
  ELSE IF IsInf(y) THEN y
  ELSE IF IsZero(x) /\ IsZero(y) THEN Zero(IF x.s = 1 /\ y.s = 1 THEN 1 ELSE 0)
  ELSE IF IsZero(x) THEN y
  ELSE IF IsZero(y) THEN x
  ELSE IF x.e - y.e > MantBits + 8 THEN x
  ELSE IF y.e - x.e > MantBits + 8 THEN y
  ELSE AddAligned(x.s, y.s, BigShl(x.m, x.e - Min(x.e, y.e)),
                  BigShl(y.m, y.e - Min(x.e, y.e)), Min(x.e, y.e))

\* x * y.
Times(x, y) ==
  IF IsNaN(x) \/ IsNaN(y) THEN NaN
  ELSE IF IsInf(x) \/ IsInf(y)
  THEN (IF IsZero(x) \/ IsZero(y) THEN NaN ELSE Inf(SignXor(x, y)))
  ELSE IF IsZero(x) \/ IsZero(y) THEN Zero(SignXor(x, y))
  ELSE RoundBig(SignXor(x, y), BigMul(x.m, y.m), x.e + y.e, FALSE)

\* x / y; d is the division of the significands, that of x scaled by
\* 2^(4 LimbBits).
Quotient(x, y) ==
  IF IsNaN(x) \/ IsNaN(y) THEN NaN
  ELSE IF IsInf(x) THEN (IF IsInf(y) THEN NaN ELSE Inf(SignXor(x, y)))
  ELSE IF IsInf(y) THEN Zero(SignXor(x, y))
  ELSE IF IsZero(y) THEN (IF IsZero(x) THEN NaN ELSE Inf(SignXor(x, y)))
  ELSE IF IsZero(x) THEN Zero(SignXor(x, y))
  ELSE The({ RoundBig(SignXor(x, y), d.q, x.e - y.e - 4 * LimbBits, d.r # <<>>)
         : d \in {BigDivMod(BigShl(x.m, 4 * LimbBits), y.m)} })

\* x % y of JavaScript (C's fmod): exact, with the sign of x.
Remainder(x, y) ==
  IF IsNaN(x) \/ IsNaN(y) \/ IsInf(x) \/ IsZero(y) THEN NaN
  ELSE IF IsInf(y) \/ IsZero(x) THEN x
  ELSE IF CmpAbs(x, y) < 0 THEN x
  ELSE The({ RoundBig(x.s, d.r, Min(x.e, y.e), FALSE)
         : d \in {BigDivMod(BigShl(x.m, x.e - Min(x.e, y.e)), BigShl(y.m, y.e - Min(x.e, y.e)))} })

\* Math.sqrt(x): r is the integer square root of N = m * 2^sh, sh chosen to
\* make the exponent even.
SquareRoot(x) ==
  IF IsNaN(x) THEN NaN
  ELSE IF IsZero(x) THEN x
  ELSE IF x.s = 1 THEN NaN
  ELSE IF IsInf(x) THEN x
  ELSE The({ The({ The({ RoundBig(0, r, (x.e - sh) \div 2, BigMul(r, r) # N)
         : r \in {BigSqrt(N)} })
         : N \in {BigShl(x.m, sh)} })
         : sh \in {4 * LimbBits + (x.e % 2)} })

(***************************************************************************)
(* Math.sin, Math.cos, Math.atan2 and Math.asin are those of the engine    *)
(* (V8's ieee754 functions, a port of fdlibm): polynomial kernels          *)
(* evaluated in binary64 arithmetic, every operation rounded as above.     *)
(* The tests on the "high word" of a number are tests on the upper 32 bits *)
(* of its encoding, sign bit excluded.                                     *)
(***************************************************************************)

\* The double of sign s whose encoding has the high word hw (sign bit
\* excluded, a normal number) and the low word l1 * 2^16 + l0.
Dbl(s, hw, l1, l0) ==
  Num(s, (hw \div 2^20) - 1075,
      <<l0 % Base, (2 * l1 + (l0 \div Base)) % Base,
        (l1 \div 2^14) + 4 * (hw % 2^13), ((hw % 2^20) \div 2^13) + 2^7>>)

\* The high word of |x|: biased exponent and the 20 upper bits of the fraction.
HighWord(x) ==
  IF IsNaN(x) THEN \h7FF80000
  ELSE IF IsInf(x) THEN \h7FF00000
  ELSE IF IsZero(x) THEN 0
  ELSE IF x.e >= MinExp THEN (x.e - MinExp) * 2^20 + BigToNat(BigShr(x.m, 32))
  ELSE BigToNat(BigShr(x.m, 32 + (MinExp - x.e)))

\* A normal number x with the low word of its encoding set to zero.
ClearLow(x) == Num(x.s, x.e, BigShl(BigShr(x.m, 32), 32))

\* scalbn(x, n): x * 2^n for a finite x.
Scalb(x, n) == IF IsZero(x) THEN x ELSE RoundBig(x.s, x.m, x.e + n, FALSE)

\* (double)(int)x and (int)x: the integer part of a finite x, |x| < 2^31.
FTrunc(x) ==
  IF IsZero(x) \/ x.e >= 0 THEN x ELSE RoundBig(x.s, BigShr(x.m, -x.e), 0, FALSE)

ToInt(x) ==
  IF IsZero(x) \/ x.e <= -MantBits THEN 0
  ELSE IF x.s = 0 THEN BigToNat(BigShr(x.m, -x.e))
  ELSE -BigToNat(BigShr(x.m, -x.e))

\* c negated when s = 1.
Negated(c, s) == IF s = 1 THEN FNeg(c) ELSE c

FOne == Dbl(0, \h3FF00000, 0, 0)
Half == Dbl(0, \h3FE00000, 0, 0)
Two24 == Dbl(0, \h41700000, 0, 0)
Twon24 == Dbl(0, \h3E700000, 0, 0)

\* c[1] + z * (c[2] + z * (... + z * c[Len(c)])), from the inside: acc is
\* c[i + 1] + z * (...).
RECURSIVE Horner(_, _, _, _)
Horner(c, z, i, acc) ==
  IF i = 0 THEN acc
  ELSE The({ Horner(c, z, i - 1, s)
         : s \in {FAdd(c[i], FMul(z, acc))} })

Poly(c, z) == Horner(c, z, Len(c) - 1, c[Len(c)])

\* f[1] + f[2] + ... added to fw, in this order.
RECURSIVE Sum(_, _, _)
Sum(f, i, fw) ==
  IF i > Len(f) THEN fw ELSE The({ Sum(f, i + 1, s)
                               : s \in {FAdd(fw, f[i])} })

\* __kernel_sin(x, y, iy): sin(x + y) for |x| <= pi/4, y the tail of x (iy = 0
\* when y is 0).  S1 is SinS1, S2 .. S6 are SinCoef.
SinS1 == Dbl(1, \h3FC55555, \h5555, \h5549)
SinCoef ==
  <<Dbl(0, \h3F811111, \h1110, \hF8A6), Dbl(1, \h3F2A01A0, \h19C1, \h61D5),
    Dbl(0, \h3EC71DE3, \h57B1, \hFE7D), Dbl(1, \h3E5AE5E6, \h8A2B, \h9CEB),
    Dbl(0, \h3DE5D93A, \h5ACF, \hD57C)>>

KernelSin(x, y, iy) ==
  IF HighWord(x) < \h3E400000 THEN x
  ELSE The({ The({ The({ IF iy = 0 THEN FAdd(x, FMul(v, FAdd(SinS1, FMul(z, r))))
         ELSE FSub(x, FSub(FSub(FMul(z, FSub(FMul(Half, y), FMul(v, r))), y),
                           FMul(v, SinS1)))
         : r \in {Poly(SinCoef, z)} })
         : v \in {FMul(z, x)} })
         : z \in {FMul(x, x)} })

\* __kernel_cos(x, y): cos(x + y) for |x| <= pi/4.  C1 .. C6 are CosCoef.
\* qx is 0 for |x| < 0.3, where the source computes 1 - (z/2 - (z r - x y)):
\* what a - (hz - (z r - x y)) is for qx = 0.
CosCoef ==
  <<Dbl(0, \h3FA55555, \h5555, \h554C), Dbl(1, \h3F56C16C, \h16C1, \h5177),
    Dbl(0, \h3EFA01A0, \h19CB, \h1590), Dbl(1, \h3E927E4F, \h809C, \h52AD),
    Dbl(0, \h3E21EE9E, \hBDB4, \hB1C4), Dbl(1, \h3DA8FAE9, \hBE88, \h38D4)>>

KernelCos(x, y) ==
  IF HighWord(x) < \h3E400000 THEN FOne
  ELSE The({ The({ The({ FSub(FSub(FOne, qx),
              FSub(FSub(FMul(Half, z), qx), FSub(FMul(z, r), FMul(x, y))))
         : qx \in {IF HighWord(x) < \h3FD33333 THEN Zero(0)
           ELSE IF HighWord(x) > \h3FE90000 THEN Dbl(0, \h3FD20000, 0, 0)
           ELSE Num(0, x.e - 2, BigShl(BigShr(x.m, 32), 32))} })
         : r \in {FMul(z, Poly(CosCoef, z))} })
         : z \in {FMul(x, x)} })

\* __ieee754_rem_pio2(x): n and the remainder y0 + y1 of x by pi/2.
\* Pio2Head is pio2_1, pio2_2, pio2_3 and Pio2Tail pio2_1t, pio2_2t, pio2_3t.
InvPio2 == Dbl(0, \h3FE45F30, \h6DC9, \hC883)
Pio2Head ==
  <<Dbl(0, \h3FF921FB, \h5440, \h0000), Dbl(0, \h3DD0B461, \h1A60, \h0000),
    Dbl(0, \h3BA3198A, \h2E00, \h0000)>>
Pio2Tail ==
  <<Dbl(0, \h3DD0B461, \h1A62, \h6331), Dbl(0, \h3BA3198A, \h2E03, \h7073),
    Dbl(0, \h397B839A, \h2520, \h49C1)>>
Npio2Hw ==
  <<\h3FF921FB, \h400921FB, \h4012D97C, \h401921FB, \h401F6A7A, \h4022D97C,
    \h4025FDBB, \h402921FB, \h402C463A, \h402F6A7A, \h4031475C, \h4032D97C,
    \h40346B9C, \h4035FDBB, \h40378FDB, \h403921FB, \h403AB41B, \h403C463A,
    \h403DD85A, \h403F6A7A, \h40407E4C, \h4041475C, \h4042106C, \h4042D97C,
    \h4043A28C, \h40446B9C, \h404534AC, \h4045FDBB, \h4046C6CB, \h40478FDB,
    \h404858EB, \h404921FB>>

\* y0 = r - w and y1 = (r - y0) - w.
RemResult(n, r, w) ==
  The({ [n |-> n, y0 |-> y0, y1 |-> FSub(FSub(r, y0), w)]
    : y0 \in {FSub(r, w)} })

\* |x| < 3 pi/4: n = +-1 and z = x -+ pio2_1; when x is close to pi/2
\* (k = 2), pio2_2 is taken off too.
RemSmall(x, ix) ==
  The({ The({ RemResult(1 - 2 * x.s, z, Negated(Pio2Tail[k], x.s))
    : z \in {IF k = 1 THEN FSub(x, Negated(Pio2Head[1], x.s))
      ELSE FSub(FSub(x, Negated(Pio2Head[1], x.s)), Negated(Pio2Head[2], x.s))} })
    : k \in {IF ix # \h3FF921FB THEN 1 ELSE 2} })

\* The k-th iteration (k = 2, 3) from t, the r of the one before:
\* w = fn * pio2_k, r = t - w, w = fn * pio2_kt - ((t - r) - w).
RemStage(fn, t, k) ==
  The({ The({ [r |-> r, w |-> FSub(FMul(fn, Pio2Tail[k]), FSub(FSub(t, r), w))]
    : r \in {FSub(t, w)} })
    : w \in {FMul(fn, Pio2Head[k])} })

\* i = j - ((high word of y0 >> 20) & 0x7ff) for y0 = r - w, j = ix >> 20.
RemLost(ix, st) == (ix \div 2^20) - (HighWord(FSub(st.r, st.w)) \div 2^20)

\* |x| <= 2^19 pi/2, t = |x|: n = (int)(t * invpio2 + half), fn = (double)n,
\* r = t - fn * pio2_1, w = fn * pio2_1t; a second iteration is needed when
\* more than 16 bits cancel in r - w, a third when more than 49 do.
RemMedium(t, ix) ==
  The({ The({ The({ IF (n < 32 /\ ix # Npio2Hw[n]) \/ RemLost(ix, s1) <= 16 THEN RemResult(n, s1.r, s1.w)
    ELSE The({ IF RemLost(ix, s2) <= 49 THEN RemResult(n, s2.r, s2.w)
           ELSE The({ RemResult(n, s3.r, s3.w)
                  : s3 \in {RemStage(fn, s2.r, 3)} })
           : s2 \in {RemStage(fn, s1.r, 2)} })
    : s1 \in {[r |-> FSub(t, FMul(fn, Pio2Head[1])), w |-> FMul(fn, Pio2Tail[1])]} })
    : fn \in {FromInt(n)} })
    : n \in {ToInt(FAdd(FMul(t, InvPio2), Half))} })

\* __kernel_rem_pio2 for |x| > 2^19 pi/2 (precision 2: jk = jp = 4).  x is cut
\* into tx, up to three 24-bit digits, and multiplied by the digits ipio2 of
\* 2/pi that can contribute to the result.
Ipio2 ==
  <<\hA2F983, \h6E4E44, \h1529FC, \h2757D1, \hF534DD, \hC0DB62, \h95993C, \h439041,
    \hFE5163, \hABDEBB, \hC561B7, \h246E3A, \h424DD2, \hE00649, \h2EEA09, \hD1921C,
    \hFE1DEB, \h1CB129, \hA73EE8, \h8235F5, \h2EBB44, \h84E99C, \h7026B4, \h5F7E41,
    \h3991D6, \h398353, \h39F49C, \h845F8B, \hBDF928, \h3B1FF8, \h97FFDE, \h05980F,
    \hEF2F11, \h8B5A0A, \h6D1F6D, \h367ECF, \h27CB09, \hB74F46, \h3F669E, \h5FEA2D,
    \h7527BA, \hC7EBE5, \hF17B3D, \h0739F7, \h8A5292, \hEA6BFB, \h5FB11F, \h8D5D08,
    \h560330, \h46FC7B, \h6BABF0, \hCFBC20, \h9AF436, \h1DA9E3, \h91615E, \hE61B08,
    \h659985, \h5F14A0, \h68408D, \hFFD880, \h4D7327, \h310606, \h1556CA, \h73A8C9,
    \h60E27B, \hC08C6B>>
PIo2 ==
  <<Dbl(0, \h3FF921FB, \h4000, \h0000), Dbl(0, \h3E74442D, \h0000, \h0000),
    Dbl(0, \h3CF84698, \h8000, \h0000), Dbl(0, \h3B78CC51, \h6000, \h0000),
    Dbl(0, \h39F01B83, \h8000, \h0000), Dbl(0, \h387A2520, \h4000, \h0000),
    Dbl(0, \h36E38222, \h8000, \h0000), Dbl(0, \h3569F31D, \h0000, \h0000)>>
Jk == 4

\* q[i] = x[0] * f[jx + i] + ... + x[jx] * f[i], where f[jx + i - j] is
\* (double)ipio2[jv + i - j], zero for a negative index.
RemQ(tx, jv, i) ==
  Sum([j \in 1..Len(tx) |->
         FMul(tx[j], FromInt(IF jv + i - j + 1 < 0 THEN 0 ELSE Ipio2[jv + i - j + 2]))],
      1, Zero(0))

\* distill q[] into iq[] reversingly: j counts down from jz, z is q[jz] at
\* first and what is carried after; iq is iq[0 .. jz - 1] at the end.
RECURSIVE Distill(_, _, _, _)
Distill(q, j, z, iq) ==
  IF j = 0 THEN [z |-> z, iq |-> iq]
  ELSE The({ The({ Distill(q, j - 1, d.z, d.iq)
         : d \in {[z |-> FAdd(q[j], fw), iq |-> Append(iq, ToInt(FSub(z, FMul(Two24, fw))))]} })
         : fw \in {FTrunc(FMul(Twon24, z))} })

\* iq = 2^24 * jz - iq, digit by digit.
RECURSIVE Complement(_, _, _, _)
Complement(iq, i, carry, out) ==
  IF i > Len(iq) THEN [iq |-> out, carry |-> carry]
  ELSE IF carry = 0
       THEN IF iq[i] # 0 THEN Complement(iq, i + 1, 1, Append(out, 2^24 - iq[i]))
            ELSE Complement(iq, i + 1, 0, Append(out, iq[i]))
       ELSE Complement(iq, i + 1, 1, Append(out, 2^24 - 1 - iq[i]))

\* The bits of iq[jz - 1] that belong to n (q0 > 0), and ih, which is
\* positive when q >= 0.5.
RemHalf(last, q0, z) ==
  IF q0 > 0 THEN [i |-> last \div 2^(24 - q0), last |-> last % 2^(24 - q0),
                  ih |-> (last % 2^(24 - q0)) \div 2^(23 - q0)]
  ELSE IF q0 = 0 THEN [i |-> 0, last |-> last, ih |-> last \div 2^23]
  ELSE [i |-> 0, last |-> last, ih |-> IF FLe(Half, z) THEN 2 ELSE 0]

\* compute n: z is scaled by 2^q0 and taken modulo 8, n is its integer part;
\* when q >= 0.5, n += 1 and q = 1 - q.
RemRound(d, q0, jz) ==
  The({ The({ The({ The({ IF h.ih = 0
    THEN [n |-> ToInt(z8) + h.i, ih |-> 0, z |-> z, iq |-> [d.iq EXCEPT ![jz] = h.last]]
    ELSE The({ [n |-> ToInt(z8) + h.i + 1, ih |-> h.ih,
            z |-> IF h.ih # 2 THEN z
                  ELSE IF c.carry # 0 THEN FSub(FSub(FOne, z), Scalb(FOne, q0))
                  ELSE FSub(FOne, z),
            iq |-> IF q0 = 1 \/ q0 = 2 THEN [c.iq EXCEPT ![jz] = @ % 2^(24 - q0)]
                   ELSE c.iq]
           : c \in {Complement([d.iq EXCEPT ![jz] = h.last], 1, 0, <<>>)} })
    : h \in {RemHalf(d.iq[jz], q0, z)} })
    : z \in {FSub(z8, FTrunc(z8))} })
    : z8 \in {FSub(zs, FMul(FromInt(8), FTrunc(FMul(zs, Dbl(0, \h3FC00000, 0, 0)))))} })
    : zs \in {Scalb(d.z, q0)} })

\* k: how many terms more are needed when z is 0 and iq[jk .. jz - 1] all are.
RECURSIVE MoreTerms(_, _)
MoreTerms(iq, k) == IF k < Jk /\ iq[Jk - k + 1] = 0 THEN MoreTerms(iq, k + 1) ELSE k

\* The result from iq[0 .. jz] and q0: q[i] = 2^(q0 - 24 (jz - i)) * iq[i],
\* fq[jz - i] = PIo2[0] * q[i] + PIo2[1] * q[i + 1] + ...; y0 is the sum of
\* fq[jz] .. fq[0] and y1 the sum of fq[0] - y0, fq[1] .. fq[jz].
RemCompose(n, ih, iq, q0) ==
  The({ The({ The({ [n |-> n % 8, y0 |-> Negated(fw, IF ih = 0 THEN 0 ELSE 1),
     y1 |-> Negated(Sum(fq, 2, FSub(fq[1], fw)), IF ih = 0 THEN 0 ELSE 1)]
    : fw \in {Sum([i \in 1..Len(fq) |-> fq[Len(fq) + 1 - i]], 1, Zero(0))} })
    : fq \in {[m \in 1..Len(q) |->
         Sum([k \in 1..Min(Jk + 1, m) |-> FMul(PIo2[k], q[Len(q) - m + k])], 1, Zero(0))]} })
    : q \in {[i \in 1..Len(iq) |->
         FMul(Scalb(FOne, q0 - 24 * (Len(iq) - i)), FromInt(iq[i]))]} })

\* chop off zero terms (z = 0): iq is iq[0 .. jz].
RECURSIVE RemChop(_, _, _, _)
RemChop(n, ih, iq, q0) ==
  IF iq[Len(iq)] = 0 THEN RemChop(n, ih, SubSeq(iq, 1, Len(iq) - 1), q0 - 24)
  ELSE RemCompose(n, ih, iq, q0)

\* break z into 24-bit digits if necessary: z is scaled by 2^-q0.
RemBreak(st, q0, z) ==
  IF FLe(Two24, z)
  THEN The({ RemCompose(st.n, st.ih,
                    Append(Append(st.iq, ToInt(FSub(z, FMul(Two24, fw)))), ToInt(fw)),
                    q0 + 24)
         : fw \in {FTrunc(FMul(Twon24, z))} })
  ELSE RemCompose(st.n, st.ih, Append(st.iq, ToInt(z)), q0)

\* jv = (e0 - 3) / 24, at least 0, and q0 = e0 - 24 (jv + 1), the exponent of
\* q[jz]; jz is jk at first, and more when the first terms cancel.
RECURSIVE KernelRemFrom(_, _, _, _)
KernelRemFrom(tx, jv, q0, jz) ==
  The({ The({ IF IsZero(st.z)
    THEN IF \A i \in Jk + 1 .. jz : st.iq[i] = 0
         THEN KernelRemFrom(tx, jv, q0, jz + MoreTerms(st.iq, 1))
         ELSE RemChop(st.n, st.ih, st.iq, q0 - 24)
    ELSE RemBreak(st, q0, Scalb(st.z, -q0))
    : st \in {RemRound(Distill(q, jz, q[jz + 1], <<>>), q0, jz)} })
    : q \in {[i \in 1..jz + 1 |-> RemQ(tx, jv, i - 1)]} })

KernelRemPio2(tx, e0) ==
  KernelRemFrom(tx, Max(0, (e0 - 3) \div 24), e0 - 24 * (Max(0, (e0 - 3) \div 24) + 1), Jk)

\* |x| > 2^19 pi/2, t = |x|: e0 = ilogb(t) - 23, z = scalbn(t, -e0), and tx
\* the three 24-bit digits of z without the zero ones at the end.
RECURSIVE TrimDigits(_)
TrimDigits(tx) ==
  IF IsZero(tx[Len(tx)]) THEN TrimDigits(SubSeq(tx, 1, Len(tx) - 1)) ELSE tx

RemLarge(t, ix) ==
  The({ The({ KernelRemPio2(TrimDigits(<<FTrunc(z), FTrunc(z1), FMul(FSub(z1, FTrunc(z1)), Two24)>>),
                  (ix \div 2^20) - 1046)
    : z1 \in {FMul(FSub(z, FTrunc(z)), Two24)} })
    : z \in {Scalb(t, 1046 - (ix \div 2^20))} })

RemPio2(x) ==
  The({ IF ix <= \h3FE921FB THEN [n |-> 0, y0 |-> x, y1 |-> Zero(0)]
    ELSE IF ix < \h4002D97C THEN RemSmall(x, ix)
    ELSE The({ IF x.s = 0 THEN r
                        ELSE [n |-> -r.n, y0 |-> FNeg(r.y0), y1 |-> FNeg(r.y1)]
           : r \in {IF ix <= \h413921FB THEN RemMedium(FAbs(x), ix) ELSE RemLarge(FAbs(x), ix)} })
    : ix \in {HighWord(x)} })

\* Math.sin(x) and Math.cos(x): the kernel chosen by n mod 4.
SinBy(r, n) ==
  IF n = 0 THEN KernelSin(r.y0, r.y1, 1)
  ELSE IF n = 1 THEN KernelCos(r.y0, r.y1)
  ELSE IF n = 2 THEN FNeg(KernelSin(r.y0, r.y1, 1))
  ELSE FNeg(KernelCos(r.y0, r.y1))

SinOf(x) ==
  IF HighWord(x) <= \h3FE921FB THEN KernelSin(x, Zero(0), 0)
  ELSE IF HighWord(x) >= \h7FF00000 THEN NaN
  ELSE The({ SinBy(r, r.n % 4)
         : r \in {RemPio2(x)} })

CosOf(x) ==
  IF HighWord(x) <= \h3FE921FB THEN KernelCos(x, Zero(0))
  ELSE IF HighWord(x) >= \h7FF00000 THEN NaN
  ELSE The({ SinBy(r, (r.n + 1) % 4)
         : r \in {RemPio2(x)} })

\* atan(x), for Math.atan2.  AtanHi[id], AtanLo[id] are atanhi[id - 1],
\* atanlo[id - 1]; AtanEven is aT[0], aT[2], .. and AtanOdd aT[1], aT[3], ..
AtanHi ==
  <<Dbl(0, \h3FDDAC67, \h0561, \hBB4F), Dbl(0, \h3FE921FB, \h5444, \h2D18),
    Dbl(0, \h3FEF730B, \hD281, \hF69B), Dbl(0, \h3FF921FB, \h5444, \h2D18)>>
AtanLo ==
  <<Dbl(0, \h3C7A2B7F, \h222F, \h65E2), Dbl(0, \h3C81A626, \h3314, \h5C07),
    Dbl(0, \h3C700788, \h7AF0, \hCBBD), Dbl(0, \h3C91A626, \h3314, \h5C07)>>
AtanEven ==
  <<Dbl(0, \h3FD55555, \h5555, \h550D), Dbl(0, \h3FC24924, \h9200, \h83FF),
    Dbl(0, \h3FB745CD, \hC54C, \h206E), Dbl(0, \h3FB10D66, \hA0D0, \h3D51),
    Dbl(0, \h3FA97B4B, \h2476, \h0DEB), Dbl(0, \h3F90AD3A, \hE322, \hDA11)>>
AtanOdd ==
  <<Dbl(1, \h3FC99999, \h9998, \hEBC4), Dbl(1, \h3FBC71C6, \hFE23, \h1671),
    Dbl(1, \h3FB3B0F2, \hAF74, \h9A6D), Dbl(1, \h3FADDE2D, \h52DE, \hFD9A),
    Dbl(1, \h3FA2B444, \h2C6A, \h6C2F)>>

\* The argument reduced for id = 1 .. 4, from x = |x|.
AtanArg(id, x) ==
  IF id = 1 THEN FDiv(FSub(FMul(FromInt(2), x), FOne), FAdd(FromInt(2), x))
  ELSE IF id = 2 THEN FDiv(FSub(x, FOne), FAdd(x, FOne))
  ELSE IF id = 3
  THEN FDiv(FSub(x, Dbl(0, \h3FF80000, 0, 0)), FAdd(FOne, FMul(Dbl(0, \h3FF80000, 0, 0), x)))
  ELSE FDiv(FromInt(-1), x)

\* The sum for the reduced argument x; id = 0 is the source's id < 0.
AtanOf(id, x) ==
  The({ The({ The({ The({ IF id = 0 THEN FSub(x, FMul(x, FAdd(s1, s2)))
    ELSE FSub(AtanHi[id], FSub(FSub(FMul(x, FAdd(s1, s2)), AtanLo[id]), x))
    : s2 \in {FMul(w, Poly(AtanOdd, w))} })
    : s1 \in {FMul(z, Poly(AtanEven, w))} })
    : w \in {FMul(z, z)} })
    : z \in {FMul(x, x)} })

Atan(x) ==
  IF IsNaN(x) THEN NaN
  ELSE The({ IF ix >= \h44100000 THEN Negated(FAdd(AtanHi[4], AtanLo[4]), x.s)
    ELSE IF ix < \h3E200000 THEN x
    ELSE IF ix < \h3FDC0000 THEN AtanOf(0, x)
    ELSE The({ Negated(AtanOf(id, AtanArg(id, FAbs(x))), x.s)
           : id \in {IF ix < \h3FE60000 THEN 1 ELSE IF ix < \h3FF30000 THEN 2
             ELSE IF ix < \h40038000 THEN 3 ELSE 4} })
         : ix \in {HighWord(x)} })

\* Math.atan2(y, x).  m is 2 * sign(x) + sign(y), k = (iy - ix) >> 20.
Pio2Hi == Dbl(0, \h3FF921FB, \h5444, \h2D18)
Pio2Lo == Dbl(0, \h3C91A626, \h3314, \h5C07)
Pio4Hi == Dbl(0, \h3FE921FB, \h5444, \h2D18)
PiHi == Dbl(0, \h400921FB, \h5444, \h2D18)
PiLo == Dbl(0, \h3CA1A626, \h3314, \h5C07)
Tiny == Dbl(0, \h01A56E1F, \hC2F8, \hF359)

\* when x is INF.
Atan2Inf(y, m) ==
  IF IsInf(y)
  THEN IF m = 0 THEN FAdd(Pio4Hi, Tiny)
       ELSE IF m = 1 THEN FSub(FNeg(Pio4Hi), Tiny)
       ELSE IF m = 2 THEN FAdd(FMul(FromInt(3), Pio4Hi), Tiny)
       ELSE FSub(FMul(FromInt(-3), Pio4Hi), Tiny)
  ELSE IF m = 0 THEN Zero(0)
       ELSE IF m = 1 THEN Zero(1)
       ELSE IF m = 2 THEN FAdd(PiHi, Tiny)
       ELSE FSub(FNeg(PiHi), Tiny)

\* compute y/x: z is atan(|y/x|), and m is taken modulo 2 when |y/x| > 2^60.
Atan2Ratio(y, x, m, k) ==
  The({ The({ IF q = 0 THEN z
    ELSE IF q = 1 THEN FNeg(z)
    ELSE IF q = 2 THEN FSub(PiHi, FSub(z, PiLo))
    ELSE FSub(FSub(z, PiLo), PiHi)
    : q \in {IF k > 60 THEN m % 2 ELSE m} })
    : z \in {IF k > 60 THEN FAdd(Pio2Hi, FMul(Half, PiLo))
      ELSE IF x.s = 1 /\ k < 0 - 60 THEN Zero(0)
      ELSE Atan(FAbs(FDiv(y, x)))} })

Atan2Of(y, x) ==
  IF IsNaN(x) \/ IsNaN(y) THEN NaN
  ELSE IF x = FOne THEN Atan(y)
  ELSE The({ IF IsZero(y)
    THEN IF m < 2 THEN y ELSE IF m = 2 THEN FAdd(PiHi, Tiny) ELSE FSub(FNeg(PiHi), Tiny)
    ELSE IF IsZero(x) \/ (IsInf(y) /\ ~IsInf(x))
    THEN IF y.s = 1 THEN FSub(FNeg(Pio2Hi), Tiny) ELSE FAdd(Pio2Hi, Tiny)
    ELSE IF IsInf(x) THEN Atan2Inf(y, m)
    ELSE Atan2Ratio(y, x, m, (HighWord(y) - HighWord(x)) \div 2^20)
         : m \in {2 * x.s + y.s} })

\* Math.asin(x).  AsinP is pS0 .. pS5 and AsinQ one, qS1 .. qS4.
AsinP ==
  <<Dbl(0, \h3FC55555, \h5555, \h5555), Dbl(1, \h3FD4D612, \h03EB, \h6F7D),
    Dbl(0, \h3FC9C155, \h0E88, \h4455), Dbl(1, \h3FA48228, \hB568, \h8F3B),
    Dbl(0, \h3F49EFE0, \h7501, \hB288), Dbl(0, \h3F023DE1, \h0DFD, \hF709)>>
AsinQ ==
  <<Dbl(0, \h3FF00000, \h0000, \h0000), Dbl(1, \h40033A27, \h1C8A, \h2D4B),
    Dbl(0, \h40002AE5, \h9C59, \h8AC8), Dbl(1, \h3FE6066C, \h1B8D, \h0159),
    Dbl(0, \h3FB3B8C5, \hB12E, \h9282)>>

\* p / q.
AsinRatio(t) ==
  The({ FDiv(p, Poly(AsinQ, t))
    : p \in {FMul(t, Poly(AsinP, t))} })

\* 1 > |x| >= 0.5: t = (1 - |x|) / 2, s = sqrt(t); below 0.975, w is s with
\* the low word cleared and c the correction (t - w w) / (s + w).
AsinHigh(x, ix) ==
  The({ The({ The({ IF ix >= \h3FEF3333
    THEN FSub(Pio2Hi, FSub(FMul(FromInt(2), FAdd(s, FMul(s, r))), Pio2Lo))
    ELSE The({ The({ The({ FSub(Pio4Hi, FSub(p, FSub(Pio4Hi, FMul(FromInt(2), w))))
           : p \in {FSub(FMul(FMul(FromInt(2), s), r), FSub(Pio2Lo, FMul(FromInt(2), c)))} })
           : c \in {FDiv(FSub(t, FMul(w, w)), FAdd(s, w))} })
           : w \in {ClearLow(s)} })
    : s \in {FSqrt(t)} })
    : r \in {AsinRatio(t)} })
    : t \in {FMul(FSub(FOne, FAbs(x)), Half)} })

AsinOf(x) ==
  The({ IF ix >= \h3FF00000
    THEN IF FAbs(x) = FOne THEN FAdd(FMul(x, Pio2Hi), FMul(x, Pio2Lo)) ELSE NaN
    ELSE IF ix < \h3E400000 THEN x
    ELSE IF ix < \h3FE00000 THEN FAdd(x, FMul(x, AsinRatio(FMul(x, x))))
    ELSE Negated(AsinHigh(x, ix), x.s)
    : ix \in {HighWord(x)} })

(***************************************************************************)
(* The constants of the program and of the cesium package it imports.      *)
(***************************************************************************)
MEAN_EARTH_RADIUS == 6371000

\* Math.PI, and Cesium.Math.TWO_PI = 2.0 * Math.PI, EPSILON14 = 0.00000000000001,
\* RADIANS_PER_DEGREE = Math.PI / 180.0.
MathPI == Dbl(0, \h400921FB, \h5444, \h2D18)
TWO_PI == FMul(FromInt(2), MathPI)
EPSILON14 == FDiv(FromInt(1), FMul(FromInt(10^7), FromInt(10^7)))
RADIANS_PER_DEGREE == FDiv(MathPI, FromInt(180))

\* Cesium.Math.toRadians(degrees).
toRadians(degrees) == FMul(degrees, RADIANS_PER_DEGREE)

\* A Cesium.Cartographic object: longitude and latitude in radians, height in
\* metres.  Cartographic(...) is `new Cesium.Cartographic(longitude, latitude, height)`.
Cartographic(longitude, latitude, height) ==
  [longitude |-> longitude, latitude |-> latitude, height |-> height]

\* An argument left out of a call is `undefined`; a parameter with a default
\* value takes the default then.
Undefined == [k |-> "undefined"]
IsUndefined(arg) == arg.k = "undefined"
Default(arg, value) == IF IsUndefined(arg) THEN value ELSE arg

\* Cesium.Math.sign(value): 1, -1, or value itself for 0 and NaN.
sign(value) ==
  IF IsNaN(value) \/ IsZero(value) THEN value
  ELSE IF value.s = 0 THEN FromInt(1) ELSE FromInt(-1)

\* Cesium.Math.mod(m, n): the modulus that also works for negative dividends.
mod(m, n) ==
  IF FEq(sign(m), sign(n)) /\ FLt(FAbs(m), FAbs(n)) THEN m
  ELSE FMod(FAdd(FMod(m, n), n), n)

\* As zeroToTwoPi, had it returned the angle as atan2 gives it.
zeroToTwoPiRaw(angle) == angle

\* Cesium.Math.zeroToTwoPi(angle).
zeroToTwoPi(angle) ==
  IF FLe(FromInt(0), angle) /\ FLe(angle, TWO_PI) THEN angle
  ELSE The({ IF FLt(FAbs(m), EPSILON14) /\ FLt(EPSILON14, FAbs(angle)) THEN TWO_PI ELSE m
         : m \in {mod(angle, TWO_PI)} })

(***************************************************************************)
(* The three functions of great-circle.mjs.  JavaScript's * and + group    *)
(* from the left, and every Math call of the source is a call here.  The   *)
(* local constants keep their names, phi for the source's Greek letters.   *)
(***************************************************************************)

\* The Haversine intermediate a of greatCircleGroundDistance (lines 23-31).
HaversineA(carto1, carto2) ==
  LET phi1 == carto1.latitude
      phi2 == carto2.latitude
      dphi == FSub(phi2, phi1)
      dlambda == FSub(carto2.longitude, carto1.longitude)
      a == FAdd(FMul(Sin(FDiv(dphi, FromInt(2))), Sin(FDiv(dphi, FromInt(2)))),
                FMul(FMul(FMul(Cos(phi1), Cos(phi2)), Sin(FDiv(dlambda, FromInt(2)))),
                     Sin(FDiv(dlambda, FromInt(2)))))
  IN a

\* As greatCircleGroundDistance, had it no radius parameter (R = MEAN_EARTH_RADIUS).
greatCircleGroundDistanceFixedRadius(carto1, carto2, radius) ==
  The({ LET R == FromInt(MEAN_EARTH_RADIUS)
            c == FMul(FromInt(2), Atan2(FSqrt(a), FSqrt(FSub(FromInt(1), a))))
            d == FMul(R, c)
        IN d
        : a \in {HaversineA(carto1, carto2)} })

\* The body of greatCircleGroundDistance (lines 16-36).
GroundDistanceOf(carto1, carto2, radius) ==
  The({ LET R == Default(radius, FromInt(MEAN_EARTH_RADIUS))
            c == FMul(FromInt(2), Atan2(FSqrt(a), FSqrt(FSub(FromInt(1), a))))
            d == FMul(R, c)
        IN d
        : a \in {HaversineA(carto1, carto2)} })

\* theta = atan2(y, x) of greatCircleInitialBearing (lines 53-59).
BearingTheta(carto1, carto2) ==
  LET phi1 == carto1.latitude
      phi2 == carto2.latitude
      dlambda == FSub(carto2.longitude, carto1.longitude)
      x == FSub(FMul(Cos(phi1), Sin(phi2)), FMul(FMul(Sin(phi1), Cos(phi2)), Cos(dlambda)))
      y == FMul(Sin(dlambda), Cos(phi2))
      theta == Atan2(y, x)
  IN theta

\* The body of greatCircleInitialBearing (lines 47-62).
BearingOf(carto1, carto2) == zeroToTwoPi(BearingTheta(carto1, carto2))

\* delta = distance / radius of greatCircleDestination (line 82).
DestinationDelta(distance, radius) ==
  FDiv(distance, Default(radius, FromInt(MEAN_EARTH_RADIUS)))

\* sinphi2 (line 88), from phi1, delta and theta.
DestinationSinPhi2(phi1, delta, theta) ==
  FAdd(FMul(Sin(phi1), Cos(delta)), FMul(FMul(Cos(phi1), Sin(delta)), Cos(theta)))

\* atan2(y, x) of line 92, y and x of lines 90-91.
DestinationAtan2(phi1, delta, theta, sinphi2) ==
  LET y == FMul(FMul(Sin(theta), Sin(delta)), Cos(phi1))
      x == FSub(Cos(delta), FMul(Sin(phi1), sinphi2))
  IN Atan2(y, x)

\* As greatCircleDestination, had it brought the longitude back into (-pi, pi].
greatCircleDestinationWrapped(carto, distance, initialBearing, radius) ==
  LET delta == DestinationDelta(distance, radius)
      sinphi2 == DestinationSinPhi2(carto.latitude, delta, initialBearing)
      lon == FAdd(carto.longitude,
                  DestinationAtan2(carto.latitude, delta, initialBearing, sinphi2))
  IN Cartographic(IF FLt(MathPI, lon) THEN FSub(lon, TWO_PI)
                  ELSE IF FLe(lon, FNeg(MathPI)) THEN FAdd(lon, TWO_PI) ELSE lon,
                  Asin(sinphi2), FromInt(0))

\* As greatCircleDestination, had it kept the height of its argument.
greatCircleDestinationKeepHeight(carto, distance, initialBearing, radius) ==
  LET delta == DestinationDelta(distance, radius)
      sinphi2 == DestinationSinPhi2(carto.latitude, delta, initialBearing)
  IN Cartographic(FAdd(carto.longitude,
                       DestinationAtan2(carto.latitude, delta, initialBearing, sinphi2)),
                  Asin(sinphi2), carto.height)

\* As greatCircleDestination, had it taken y = sin(theta) * cos(delta) * cos(phi1).
greatCircleDestinationCosDelta(carto, distance, initialBearing, radius) ==
  LET delta == DestinationDelta(distance, radius)
      sinphi2 == DestinationSinPhi2(carto.latitude, delta, initialBearing)
      y == FMul(FMul(Sin(initialBearing), Cos(delta)), Cos(carto.latitude))
      x == FSub(Cos(delta), FMul(Sin(carto.latitude), sinphi2))
  IN Cartographic(FAdd(carto.longitude, Atan2(y, x)), Asin(sinphi2), FromInt(0))

\* The body of greatCircleDestination (lines 75-98).
DestinationOf(carto, distance, initialBearing, radius) ==
  LET phi1 == carto.latitude
      lambda1 == carto.longitude
      delta == DestinationDelta(distance, radius)
      sinphi2 == DestinationSinPhi2(phi1, delta, initialBearing)
      phi2 == Asin(sinphi2)
      lambda2 == FAdd(lambda1, DestinationAtan2(phi1, delta, initialBearing, sinphi2))
  IN Cartographic(lambda2, phi2, FromInt(0))

\* The caller's arguments, as its source text writes them.  Tenths(t) is the
\* number t / 10.
Tenths(t) == FDiv(FromInt(t), FromInt(10))

\* Cesium.Cartographic.fromDegrees(longitude, latitude, height).
fromDegrees(longitude, latitude, height) ==
  Cartographic(toRadians(longitude), toRadians(latitude), height)

\* A point given in degrees: p is <<longitude, latitude, height>>, the angles
\* in tenths of a degree, the height in metres.
PlaceOf(p) == fromDegrees(Tenths(p[1]), Tenths(p[2]), FromInt(p[3]))

\* A distance in metres: an angle of t tenths of a degree, in radians, times
\* the radius of the sphere in use.
DistanceOf(t, radius) ==
  FMul(toRadians(Tenths(t)), Default(radius, FromInt(MEAN_EARTH_RADIUS)))

\* A bearing in radians: q quarter turns clockwise from north.
QuarterTurnsOf(q) == toRadians(FromInt(90 * q))

\* The three of them as calls.
Place(p) == Apply("Place", <<p>>)
Distance(t, radius) == Apply("Distance", <<t, radius>>)
QuarterTurns(q) == Apply("QuarterTurns", <<q>>)

\* The three functions as the caller sees them.
greatCircleGroundDistance(carto1, carto2, radius) ==
  Apply("greatCircleGroundDistance", <<carto1, carto2, radius>>)

greatCircleInitialBearing(carto1, carto2) ==
  Apply("greatCircleInitialBearing", <<carto1, carto2>>)

greatCircleDestination(carto, distance, initialBearing, radius) ==
  Apply("greatCircleDestination", <<carto, distance, initialBearing, radius>>)

\* A call: the arguments are computed, then the body named by op runs on them.
Apply(op, a) ==
  The({ CASE op = "+" -> Plus(v[1], v[2])
          [] op = "*" -> Times(v[1], v[2])
          [] op = "/" -> Quotient(v[1], v[2])
          [] op = "%" -> Remainder(v[1], v[2])
          [] op = "sqrt" -> SquareRoot(v[1])
          [] op = "sin" -> SinOf(v[1])
          [] op = "cos" -> CosOf(v[1])
          [] op = "atan2" -> Atan2Of(v[1], v[2])
          [] op = "asin" -> AsinOf(v[1])
          [] op = "greatCircleGroundDistance" -> GroundDistanceOf(v[1], v[2], v[3])
          [] op = "greatCircleInitialBearing" -> BearingOf(v[1], v[2])
          [] op = "greatCircleDestination" -> DestinationOf(v[1], v[2], v[3], v[4])
          [] op = "Place" -> PlaceOf(v[1])
          [] op = "Distance" -> DistanceOf(v[1], v[2])
          [] op = "QuarterTurns" -> QuarterTurnsOf(v[1])
        : v \in {a} })

(***************************************************************************)
(* The caller.  It constructs one or two Cartographic objects, from        *)
(* degrees (Cesium.Cartographic.fromDegrees) or from radians (new          *)
(* Cesium.Cartographic), then calls one of the three functions.  heap      *)
(* holds the objects in the order of their construction; an object is      *)
(* referred to by its index in heap.                                       *)
(***************************************************************************)

VARIABLES heap, pc, call, result

vars == <<heap, pc, call, result>>

\* The inputs: angles in tenths of a degree, heights in metres.
\* Places are <<longitude, latitude, height>>.
Places ==
  { <<0, 147, 0>>, <<1800, -147, 250>>, <<0, -147, 0>>, <<1350, 0, 250>>,
    <<0, 900, 250>>, <<0, 899, 0>>, <<2000, 0, 0>> }
DistanceTenths == {-1047, -900, 0, 900, 1047, 1800}
Radii == {Undefined, FromInt(1)}
\* Bearings are the multiples of 90 degrees up to MaxQuadrant * 90.
MaxQuadrant == 3

\* 2^1023, the largest power of two among the numbers: finite, as its
\* negation is, while their difference is not.
Far == Dbl(0, \h7FE00000, 0, 0)

\* The points the caller constructs: Places, and two points on the equator
\* given in radians, Far to the east and to the west.
Points ==
  { Place(p) : p \in Places }
    \cup { Cartographic(Far, FromInt(0), FromInt(0)),
           Cartographic(FNeg(Far), FromInt(0), FromInt(0)) }

NoCall == [op |-> "none"]

Init ==
  /\ heap = <<>>
  /\ pc = "caller"
  /\ call = NoCall
  /\ result = Undefined

\* The caller constructs an input point.
Construct ==
  /\ pc = "caller"
  /\ Len(heap) < 2
  /\ \E p \in Points : heap' = Append(heap, p)
  /\ UNCHANGED <<pc, call, result>>

\* greatCircleGroundDistance(carto1, carto2[, radius]): reads its arguments only.
GroundDistance ==
  /\ pc = "caller"
  /\ Len(heap) = 2
  /\ \E radius \in Radii :
       /\ call' = [op |-> "greatCircleGroundDistance", radius |-> radius]
       /\ result' = greatCircleGroundDistance(heap[1], heap[2], radius)
  /\ pc' = "returned"
  /\ UNCHANGED heap

\* greatCircleInitialBearing(carto1, carto2): reads its arguments only.
InitialBearing ==
  /\ pc = "caller"
  /\ Len(heap) = 2
  /\ call' = [op |-> "greatCircleInitialBearing"]
  /\ result' = greatCircleInitialBearing(heap[1], heap[2])
  /\ pc' = "returned"
  /\ UNCHANGED heap

\* greatCircleDestination(carto, distance, initialBearing[, radius]): the
\* distance is an angle times the radius of the sphere in use.  The object it
\* constructs is added to the heap and its reference returned.
Destination ==
  /\ pc = "caller"
  /\ Len(heap) = 1
  /\ \E t \in DistanceTenths, q \in 0..MaxQuadrant, radius \in Radii :
       \E distance \in {Distance(t, radius)},
          initialBearing \in {QuarterTurns(q)} :
          /\ call' = [op |-> "greatCircleDestination", distance |-> distance,
                      initialBearing |-> initialBearing, radius |-> radius]
          /\ heap' = Append(heap, greatCircleDestination(heap[1], distance,
                                                         initialBearing, radius))
          /\ result' = Len(heap) + 1
  /\ pc' = "returned"

Next == Construct \/ GroundDistance \/ InitialBearing \/ Destination

Spec == Init /\ [][Next]_vars


(***************************************************************************)
(* Properties.                                                             *)
(***************************************************************************)
Returned(op) == pc = "returned" /\ call.op = op

\* The object the call of greatCircleDestination returned.
Point == heap[result]

HALF_PI == FDiv(MathPI, FromInt(2))

\* |x - y| <= eps for finite x, y; false when either is NaN.
Within(x, y, eps) == FLe(FAbs(FSub(x, y)), eps)

\* C1: greatCircleGroundDistance never takes the square root of a negative
\* number (0 <= a <= 1 where the roots are taken) and never returns NaN.
C1_DistanceNeverNaN ==
  Returned("greatCircleGroundDistance") =>
    LET a == HaversineA(heap[1], heap[2])
    IN /\ FLe(FromInt(0), a)
       /\ FLe(a, FromInt(1))
       /\ ~IsNaN(result)

\* C2: the latitude greatCircleDestination returns is never NaN and lies in
\* [-pi/2, pi/2] (sin(phi2) is within [-1, 1] where asin is taken).
C2_LatitudeNeverNaN ==
  Returned("greatCircleDestination") =>
    /\ ~IsNaN(Point.latitude)
    /\ FLe(FNeg(HALF_PI), Point.latitude)
    /\ FLe(Point.latitude, HALF_PI)

\* C3 as stated: for every pair of finite input points,
\* greatCircleInitialBearing returns b with 0 <= b < 2 pi.
C3_BearingInRange ==
  Returned("greatCircleInitialBearing") =>
    FLe(FromInt(0), result) /\ FLt(result, TWO_PI)

\* C3 as amended: greatCircleInitialBearing returns b with 0 <= b < 2 pi for
\* every pair of finite input points whose difference of longitudes
\* lambda2 - lambda1 is a finite number, and NaN when it is not.
C3_BearingInRangeFiniteDifference ==
  Returned("greatCircleInitialBearing") =>
    IF IsInf(FSub(heap[2].longitude, heap[1].longitude))
    THEN IsNaN(result)
    ELSE FLe(FromInt(0), result) /\ FLt(result, TWO_PI)

\* A bearing was returned for an angle theta just below zero (-1e-14 < theta < 0).
C3_Witness ==
  /\ Returned("greatCircleInitialBearing")
  /\ FLt(BearingTheta(heap[1], heap[2]), FromInt(0))
  /\ FLt(FNeg(EPSILON14), BearingTheta(heap[1], heap[2]))

\* C4: for 0 <= d <= pi R and a bearing in [0, 2 pi), the ground distance from
\* p to greatCircleDestination(p, d, theta, R) is d within R / 2^20.
C4_RoundTrip ==
  (/\ Returned("greatCircleDestination")
   /\ FLe(FromInt(0), call.distance)
   /\ FLe(call.distance, FMul(MathPI, Default(call.radius, FromInt(MEAN_EARTH_RADIUS))))
   /\ FLt(call.initialBearing, TWO_PI))
  => Within(greatCircleGroundDistance(heap[1], Point, call.radius), call.distance,
            FDiv(Default(call.radius, FromInt(MEAN_EARTH_RADIUS)), FromInt(2^20)))

\* lon is in (-pi, pi].
Inside(lon) == FLt(FNeg(MathPI), lon) /\ FLe(lon, MathPI)

\* lon brought back into (-pi, pi] by one turn.
Normalized(lon) ==
  IF FLt(MathPI, lon) THEN FSub(lon, TWO_PI)
  ELSE IF FLe(lon, FNeg(MathPI)) THEN FAdd(lon, TWO_PI) ELSE lon

Flat(carto) == [carto EXCEPT !.height = FromInt(0)]

\* C6: no call changes an object that exists (the arguments among them);
\* greatCircleDestination returns a new object, of height 0; and every result
\* is what it is for arguments of height 0.
C6_Step ==
  /\ \A i \in 1..Len(heap) : heap'[i] = heap[i]
  /\ call'.op = "greatCircleDestination" =>
       /\ result' = Len(heap) + 1
       /\ Len(heap') = Len(heap) + 1
       /\ IsZero(heap'[result'].height)
       /\ heap'[result'] = greatCircleDestination(Flat(heap[1]), call'.distance,
                                                 call'.initialBearing, call'.radius)
  /\ call'.op = "greatCircleGroundDistance" =>
       result' = greatCircleGroundDistance(Flat(heap[1]), Flat(heap[2]), call'.radius)
  /\ call'.op = "greatCircleInitialBearing" =>
       result' = greatCircleInitialBearing(Flat(heap[1]), Flat(heap[2]))

C6_FreshHeightZeroNoMutation == [][pc = "caller" /\ pc' = "returned" => C6_Step]_vars

\* greatCircleDestination returned for a point 250 m high.
C6_Witness ==
  /\ Returned("greatCircleDestination")
  /\ ~IsZero(heap[1].height)
  /\ result = 2

\* C7 as stated: travelling the distance 0 returns the latitude and the
\* longitude of p, and the height 0.
C7_ZeroDistanceExact ==
  (Returned("greatCircleDestination") /\ IsZero(call.distance)) =>
    /\ FEq(Point.latitude, heap[1].latitude)
    /\ FEq(Point.longitude, heap[1].longitude)
    /\ IsZero(Point.height)

\* C7 as amended: travelling the distance 0 returns the longitude of p, the
\* height 0, and the latitude asin(sin(p.latitude)), within 2^-25 rad of
\* p.latitude.
C7_ZeroDistanceWithinRounding ==
  (Returned("greatCircleDestination") /\ IsZero(call.distance)) =>
    /\ Point.latitude = Asin(Sin(heap[1].latitude))
    /\ Within(Point.latitude, heap[1].latitude, FDiv(FromInt(1), FromInt(2^25)))
    /\ FEq(Point.longitude, heap[1].longitude)
    /\ IsZero(Point.height)

\* The distance 0 was travelled along a bearing other than north or south, and the
\* latitude returned is not p's.
C7_Witness ==
  /\ Returned("greatCircleDestination")
  /\ IsZero(call.distance)
  /\ FEq(call.initialBearing, HALF_PI)
  /\ ~FEq(Point.latitude, heap[1].latitude)

\* C8: greatCircleGroundDistance(p1, p2, R) = greatCircleGroundDistance(p2, p1, R),
\* and it is not negative.
C8_SymmetricNonNegative ==
  Returned("greatCircleGroundDistance") =>
    /\ FEq(result, greatCircleGroundDistance(heap[2], heap[1], call.radius))
    /\ FLe(FromInt(0), result)

\* C9: greatCircleDestination(p, -d, theta, R), d > 0, has the latitude and the
\* longitude of greatCircleDestination(p, d, theta + pi, R).
C9_NegativeDistance ==
  (Returned("greatCircleDestination") /\ FLt(call.distance, FromInt(0))) =>
    LET forward == greatCircleDestination(heap[1], FNeg(call.distance),
                                          FAdd(call.initialBearing, MathPI),
                                          call.radius)
    IN /\ FEq(Point.latitude, forward.latitude)
       /\ FEq(Point.longitude, forward.longitude)

\* C10: MEAN_EARTH_RADIUS is 6371000; a call without radius returns what the
\* call with radius 6371000 returns; a radius given is the one used: the
\* distance is the radius times the distance on the sphere of radius 1, and
\* the destination is the same when distance and radius are both doubled.
C10_DefaultRadius ==
  /\ MEAN_EARTH_RADIUS = 6371000
  /\ Returned("greatCircleGroundDistance") =>
       /\ result = FMul(Default(call.radius, FromInt(6371000)),
                        greatCircleGroundDistance(heap[1], heap[2], FromInt(1)))
       /\ IsUndefined(call.radius) =>
            result = greatCircleGroundDistance(heap[1], heap[2], FromInt(6371000))
  /\ Returned("greatCircleDestination") =>
       IF IsUndefined(call.radius)
       THEN Point = greatCircleDestination(heap[1], call.distance,
                                           call.initialBearing, FromInt(6371000))
       ELSE Point = greatCircleDestination(heap[1], FMul(FromInt(2), call.distance),
                                           call.initialBearing,
                                           FMul(FromInt(2), call.radius))

\* A distance was returned to a call without radius, and it is not zero.
C10_Witness ==
  /\ Returned("greatCircleGroundDistance")
  /\ IsUndefined(call.radius)
  /\ ~IsNaN(result)
  /\ ~IsZero(result)

====
